---- MODULE Spec2Model ----
(***************************************************************************)
(* A model of src/src/main.rs: the command-line program that reads one     *)
(* Python module, parses it, and collects references to the class          *)
(* definitions among the module's top-level statements.                    *)
(*                                                                         *)
(* The program is one function, main, run once.  Each `?` and each         *)
(* statement of main is one step of the state machine; pc names the        *)
(* statement main is about to execute.                                     *)
(***************************************************************************)
EXTENDS Naturals, Sequences, FiniteSets, TLC

(***************************************************************************)
(* Bounds of the model.                                                    *)
(***************************************************************************)

\* The largest number of statement nodes (at any nesting depth) in a module.
MaxNodes == 6

\* The identifiers classes are named with, and the ones functions are.
ClassNames == {"A", "B"}
FuncNames == {"f"}

\* The paths the command line may name.
Paths == {"module.py"}

(***************************************************************************)
(* Option<T>: None, or Some(x).                                            *)
(***************************************************************************)
None == <<>>
Some(x) == <<x>>

(***************************************************************************)
(* The syntax tree, as rustpython_ast gives it: a statement is a tagged    *)
(* variant.  Three variants are kept: a class definition (name, body), a   *)
(* function definition (name, body) and a simple statement (pass).  A      *)
(* parsed class or function body is never empty.                           *)
(***************************************************************************)
PassStmt == [kind |-> "Pass", name |-> "", body |-> <<>>]

RECURSIVE StmtsOfSize(_), BodiesOfSize(_)
\* The statements made of exactly n nodes.
StmtsOfSize(n) ==
    IF n = 1
    THEN {PassStmt}
    ELSE {[kind |-> "ClassDef", name |-> nm, body |-> b] :
              nm \in ClassNames, b \in BodiesOfSize(n - 1)}
         \cup
         {[kind |-> "FunctionDef", name |-> nm, body |-> b] :
              nm \in FuncNames, b \in BodiesOfSize(n - 1)}
\* The statement sequences made of exactly n nodes.
BodiesOfSize(n) ==
    IF n = 0
    THEN {<<>>}
    ELSE UNION {{<<t>> \o rest : t \in StmtsOfSize(k), rest \in BodiesOfSize(n - k)} :
                    k \in 1..n}

\* Every module body of at most MaxNodes nodes.
Modules == UNION {BodiesOfSize(n) : n \in 0..MaxNodes}

(***************************************************************************)
(* The file system and the source text.  A file is unreadable, or holds a  *)
(* text; a text is either not valid Python or is the text of one module    *)
(* body.                                                                   *)
(***************************************************************************)
Files ==
    {[readable |-> FALSE, syntax_ok |-> FALSE, body |-> <<>>],
     [readable |-> TRUE, syntax_ok |-> FALSE, body |-> <<>>]}
    \cup
    {[readable |-> TRUE, syntax_ok |-> TRUE, body |-> m] : m \in Modules}

\* The command lines: no positional argument, or one path.
ArgVectors == {<<>>} \cup {<<p>> : p \in Paths}

VARIABLES
    argv,        \* the command line's positional arguments
    fs,          \* the file system: path -> file
    pc,          \* the statement of main about to run
    filename,    \* Args.module_filename, once parsed
    source,      \* the String fs::read_to_string returned
    stmts,       \* the module body the parser returned
    classdefs,   \* Vec<&StmtClassDef>: references into stmts
    classes,     \* the Class values constructed so far
    exit_code    \* the process's exit code, once it has exited

vars == <<argv, fs, pc, filename, source, stmts, classdefs, classes, exit_code>>

(***************************************************************************)
(* References.  A reference to a statement is the path of indices that     *)
(* leads to it from the module body: <<i>> is the i-th top-level           *)
(* statement, <<i, j>> the j-th statement of its body.                     *)
(***************************************************************************)
RECURSIVE Deref(_, _)
Deref(body, ref) ==
    IF Len(ref) = 1
    THEN body[ref[1]]
    ELSE Deref(body[ref[1]].body, Tail(ref))

\* A walk that also enters the bodies of the statements it meets.
RECURSIVE iter_deep_from(_, _)
iter_deep_from(body, prefix) ==
    LET RECURSIVE go(_)
        go(i) ==
            IF i > Len(body)
            THEN <<>>
            ELSE <<Append(prefix, i)>>
                 \o iter_deep_from(body[i].body, Append(prefix, i))
                 \o go(i + 1)
    IN go(1)
iter_deep(body) == iter_deep_from(body, <<>>)

\* stmts.iter(): a reference to each element of the vector, in order.
iter(body) == [i \in 1..Len(body) |-> <<i>>]

\* A variant test that never answers None.
as_class_def_stmt_any(body, ref) == Some(ref)

\* Stmt::as_class_def_stmt: Some(&StmtClassDef) for the ClassDef variant,
\* None for every other.
as_class_def_stmt(body, ref) ==
    IF Deref(body, ref).kind = "ClassDef"
    THEN Some(ref)
    ELSE None

\* A filter_map that yields what it keeps in reverse.
filter_map_rev(it, body) ==
    LET RECURSIVE go(_)
        go(i) ==
            IF i > Len(it)
            THEN <<>>
            ELSE LET r == as_class_def_stmt(body, it[i])
                 IN go(i + 1) \o (IF r = None THEN <<>> ELSE <<r[1]>>)
    IN go(1)

\* .filter_map(|stmt| stmt.as_class_def_stmt()): the iterator's items in
\* order, each kept (unwrapped) when the closure answers Some.
filter_map(it, body) ==
    LET RECURSIVE go(_)
        go(i) ==
            IF i > Len(it)
            THEN <<>>
            ELSE LET r == as_class_def_stmt(body, it[i])
                 IN (IF r = None THEN <<>> ELSE <<r[1]>>) \o go(i + 1)
    IN go(1)

\* .collect(): the iterator's items as a Vec.
collect(it) == it

(***************************************************************************)
(* The initial state: the process has been started, main has not run.      *)
(***************************************************************************)
Init ==
    /\ argv \in ArgVectors
    /\ fs \in [Paths -> Files]
    /\ pc = "parse_args"
    /\ filename = None
    /\ source = None
    /\ stmts = None
    /\ classdefs = None
    /\ classes = <<>>
    /\ exit_code = None

(***************************************************************************)
(* The steps of main.                                                      *)
(***************************************************************************)

\* Args::parse(): with the positional argument missing clap reports the
\* usage error and exits with code 2.
ParseArgs ==
    /\ pc = "parse_args"
    /\ IF argv = <<>>
       THEN /\ pc' = "exit"
            /\ exit_code' = Some(2)
            /\ UNCHANGED filename
       ELSE /\ filename' = Some(argv[1])
            /\ pc' = "read"
            /\ UNCHANGED exit_code
    /\ UNCHANGED <<argv, fs, source, stmts, classdefs, classes>>

\* A read that takes the empty string for a file it cannot read.
ReadToString_or_default ==
    /\ pc = "read"
    /\ source' = Some(IF fs[filename[1]].readable
                      THEN fs[filename[1]]
                      ELSE [readable |-> TRUE, syntax_ok |-> TRUE, body |-> <<>>])
    /\ pc' = "parse"
    /\ UNCHANGED <<argv, fs, filename, stmts, classdefs, classes, exit_code>>

\* fs::read_to_string(&filename)?: on Err main returns it, and the process
\* exits with code 1.
ReadToString ==
    /\ pc = "read"
    /\ IF fs[filename[1]].readable
       THEN /\ source' = Some(fs[filename[1]])
            /\ pc' = "parse"
            /\ UNCHANGED exit_code
       ELSE /\ pc' = "exit"
            /\ exit_code' = Some(1)
            /\ UNCHANGED source
    /\ UNCHANGED <<argv, fs, filename, stmts, classdefs, classes>>

\* rustpython_parser::parse(.., Mode::Module, ..)?.expect_module().body: on
\* a syntax error main returns the Err, and the process exits with code 1.
Parse ==
    /\ pc = "parse"
    /\ IF source[1].syntax_ok
       THEN /\ stmts' = Some(source[1].body)
            /\ pc' = "filter"
            /\ UNCHANGED exit_code
       ELSE /\ pc' = "exit"
            /\ exit_code' = Some(1)
            /\ UNCHANGED stmts
    /\ UNCHANGED <<argv, fs, filename, source, classdefs, classes>>

\* let classdefs = stmts.iter().filter_map(..).collect();
Filter ==
    /\ pc = "filter"
    /\ classdefs' = Some(collect(filter_map(iter(stmts[1]), stmts[1])))
    /\ pc' = "return"
    /\ UNCHANGED <<argv, fs, filename, source, stmts, classes, exit_code>>

\* Ok(()): main returns, and the process exits with code 0.
Return ==
    /\ pc = "return"
    /\ pc' = "exit"
    /\ exit_code' = Some(0)
    /\ UNCHANGED <<argv, fs, filename, source, stmts, classdefs, classes>>

Next ==
    \/ ParseArgs
    \/ ReadToString
    \/ Parse
    \/ Filter
    \/ Return

Spec == Init /\ [][Next]_vars

(***************************************************************************)
(* The hierarchy the specification describes (spec sections 4.1 and 4.2).  *)
(* main.rs declares struct Class and constructs none; these operators say  *)
(* what the specification expects of the forest, and the claims below      *)
(* compare the program's Class values with them.  A Class is modelled as   *)
(* [qualname, children]: qualname the dotted name as its sequence of       *)
(* identifiers, children an Option of a sequence of Class.                 *)
(***************************************************************************)

\* Spec 4.1: the class-definition statements of a sequence, in order.
filter_class_defs(statements) ==
    SelectSeq(statements, LAMBDA s : s.kind = "ClassDef")

RECURSIVE build(_, _), build_each(_, _)
\* Spec 4.2: the descriptor of one class definition under a name prefix.
build(class_def, name_prefix) ==
    LET qualified_name == Append(name_prefix, class_def.name)
    IN [qualname |-> qualified_name,
        children |-> Some(build_each(filter_class_defs(class_def.body),
                                     qualified_name))]
\* Spec 4.2, step 3: build applied to each definition, in order.
build_each(class_defs, name_prefix) ==
    IF class_defs = <<>>
    THEN <<>>
    ELSE <<build(Head(class_defs), name_prefix)>>
         \o build_each(Tail(class_defs), name_prefix)

\* Spec 4.2: the forest of a module.
build_forest(module_statements) ==
    build_each(filter_class_defs(module_statements), <<>>)

(***************************************************************************)
(* What the claims read off a state.                                       *)
(***************************************************************************)

\* main has returned Ok(()).
Succeeded == pc = "exit" /\ exit_code = Some(0)

\* The children of a descriptor, an absent sequence read as empty.
ChildrenOf(d) == IF d.children = None THEN <<>> ELSE d.children[1]

\* The qualified names of a forest, in pre-order.
RECURSIVE Qualnames(_)
Qualnames(forest) ==
    IF forest = <<>>
    THEN <<>>
    ELSE <<Head(forest).qualname>>
         \o Qualnames(ChildrenOf(Head(forest)))
         \o Qualnames(Tail(forest))

\* Every descriptor of a forest is named by its parent's name and one more
\* identifier.
RECURSIVE WellNamed(_, _)
WellNamed(forest, parent_name) ==
    \A i \in 1..Len(forest) :
        /\ Len(forest[i].qualname) = Len(parent_name) + 1
        /\ SubSeq(forest[i].qualname, 1, Len(parent_name)) = parent_name
        /\ WellNamed(ChildrenOf(forest[i]), forest[i].qualname)

\* A forest with each descriptor reduced to its local name and its children.
RECURSIVE Shape(_)
Shape(forest) ==
    [i \in 1..Len(forest) |->
        [name |-> forest[i].qualname[Len(forest[i].qualname)],
         children |-> Shape(ChildrenOf(forest[i]))]]

\* Every descriptor of a forest, at any depth.
RECURSIVE Descriptors(_)
Descriptors(forest) ==
    UNION {{forest[i]} \cup Descriptors(ChildrenOf(forest[i])) :
               i \in 1..Len(forest)}

\* The height of a forest: 0 when empty.
RECURSIVE Height(_)
Height(forest) ==
    IF forest = <<>>
    THEN 0
    ELSE LET h == {1 + Height(ChildrenOf(forest[i])) : i \in 1..Len(forest)}
         IN CHOOSE m \in h : \A n \in h : n <= m

\* The deepest nesting of class definitions directly inside class bodies.
RECURSIVE ClassDepth(_)
ClassDepth(body) ==
    LET h == {0} \cup {1 + ClassDepth(body[i].body) :
                           i \in {j \in 1..Len(body) : body[j].kind = "ClassDef"}}
    IN CHOOSE m \in h : \A n \in h : n <= m

\* The top-level statements that are class definitions, by position.
TopClassDefs(body) == {i \in 1..Len(body) : body[i].kind = "ClassDef"}

\* The references that lie inside the body of a function definition.
InsideFunction(body, ref) ==
    \E j \in 1..(Len(ref) - 1) : Deref(body, SubSeq(ref, 1, j)).kind = "FunctionDef"

\* Some function definition at the top level holds a class definition.
HasClassInFunction(body) ==
    \E i \in 1..Len(body) :
        /\ body[i].kind = "FunctionDef"
        /\ \E j \in 1..Len(body[i].body) : body[i].body[j].kind = "ClassDef"

(***************************************************************************)
(* C1.  The statement filter returns exactly the class-definition          *)
(* statements of the sequence it is given: every element it returns is a   *)
(* class definition of that sequence, every class definition of the        *)
(* sequence is returned exactly once, and the elements keep their          *)
(* relative order.                                                         *)
(***************************************************************************)
C1_FilterExact ==
    classdefs # None =>
        LET cd == classdefs[1]
            S == stmts[1]
        IN /\ \A k \in 1..Len(cd) :
                  /\ Len(cd[k]) = 1
                  /\ cd[k][1] \in 1..Len(S)
                  /\ S[cd[k][1]].kind = "ClassDef"
           /\ \A i \in TopClassDefs(S) :
                  Cardinality({k \in 1..Len(cd) : cd[k] = <<i>>}) = 1
           /\ \A k1, k2 \in 1..Len(cd) : k1 < k2 => cd[k1][1] < cd[k2][1]

\* The filter has run on a sequence that mixes two class definitions with
\* a statement of another kind.
C1_Witness ==
    /\ classdefs # None
    /\ Len(classdefs[1]) = 2
    /\ \E i, j \in 1..Len(stmts[1]) :
           /\ i < j
           /\ stmts[1][i].kind = "FunctionDef"
           /\ stmts[1][j].kind = "ClassDef"

(***************************************************************************)
(* C2.  When main succeeds, the forest holds one root descriptor per       *)
(* class definition at the top level of the module, in source order, and   *)
(* each root's qualified name is the one-element name of its class.        *)
(***************************************************************************)
C2_RootPerClassDef ==
    Succeeded =>
        /\ Len(classes) = Len(classdefs[1])
        /\ \A k \in 1..Len(classes) :
               classes[k].qualname = <<Deref(stmts[1], classdefs[1][k]).name>>

(***************************************************************************)
(* C3.  When main succeeds, every descriptor's qualified name is its       *)
(* parent's qualified name with its own local name appended, and the       *)
(* forest's qualified names are those of the module's class definitions:   *)
(* class A holding class B holding class C gives A, A.B, A.B.C.            *)
(***************************************************************************)
C3_QualifiedNames ==
    Succeeded =>
        /\ WellNamed(classes, <<>>)
        /\ Qualnames(classes) = Qualnames(build_forest(stmts[1]))

(***************************************************************************)
(* C4.  When main succeeds, the children of every descriptor are the       *)
(* descriptors of the class definitions directly in that class's body,     *)
(* one per statement, in body order, duplicates of a name kept.            *)
(***************************************************************************)
C4_ChildrenInBodyOrder ==
    Succeeded => Shape(classes) = Shape(build_forest(stmts[1]))

(***************************************************************************)
(* C5.  Run on a path, the program exits with code 0 when the file is      *)
(* read and parsed, and with a non-zero code when the read fails or the    *)
(* text does not parse; in the failure cases the filter never runs and no  *)
(* descriptor is built.                                                    *)
(***************************************************************************)
C5_ExitCodes ==
    (pc = "exit" /\ filename # None) =>
        LET file == fs[filename[1]]
        IN IF file.readable /\ file.syntax_ok
           THEN exit_code = Some(0)
           ELSE /\ exit_code # None
                /\ exit_code # Some(0)
                /\ classdefs = None
                /\ classes = <<>>

\* The program has exited on a file that it read and could not parse.
C5_Witness ==
    /\ pc = "exit"
    /\ filename # None
    /\ fs[filename[1]].readable
    /\ ~fs[filename[1]].syntax_ok
    /\ exit_code = Some(1)

(***************************************************************************)
(* C6.  No class definition inside a function body is among the class      *)
(* definitions the filter hands on as roots: the filter is applied to the  *)
(* module's top-level statements and enters no statement that is not a     *)
(* class definition.                                                       *)
(***************************************************************************)
C6_FunctionBodiesNotEntered ==
    classdefs # None =>
        \A k \in 1..Len(classdefs[1]) :
            /\ ~InsideFunction(stmts[1], classdefs[1][k])
            /\ \A j \in 1..(Len(classdefs[1][k]) - 1) :
                   Deref(stmts[1], SubSeq(classdefs[1][k], 1, j)).kind = "ClassDef"

\* The program has succeeded on a module whose function holds a class.
C6_Witness ==
    /\ Succeeded
    /\ HasClassInFunction(stmts[1])
    /\ TopClassDefs(stmts[1]) # {}

(***************************************************************************)
(* C7.  The filter never fails: once the module is parsed the program      *)
(* exits with code 0; an empty statement sequence gives an empty result,   *)
(* and a module with no class definition gives an empty result and an      *)
(* empty forest.                                                           *)
(***************************************************************************)
C7_FilterTotal ==
    (stmts # None /\ pc \in {"return", "exit"}) =>
        /\ classdefs # None
        /\ exit_code \in {None, Some(0)}
        /\ (TopClassDefs(stmts[1]) = {}) =>
               (classdefs = Some(<<>>) /\ classes = <<>>)

\* The program has succeeded on a non-empty module with no class definition.
C7_Witness ==
    /\ Succeeded
    /\ stmts[1] # <<>>
    /\ TopClassDefs(stmts[1]) = {}
    /\ classdefs = Some(<<>>)

(***************************************************************************)
(* C8.  When main succeeds, every descriptor carries a children sequence,  *)
(* and the descriptor of a class with no nested class definition carries   *)
(* an empty one.                                                           *)
(***************************************************************************)
C8_ChildrenPresent ==
    Succeeded =>
        /\ \A d \in Descriptors(classes) : d.children # None
        /\ \A k \in 1..Len(classdefs[1]) :
               TopClassDefs(Deref(stmts[1], classdefs[1][k]).body) = {} =>
                   /\ k <= Len(classes)
                   /\ classes[k].children = Some(<<>>)

(***************************************************************************)
(* C10.  For every module, the build terminates without an error, returns  *)
(* a descriptor for each class definition it is called on, and descends    *)
(* exactly as deep as the class definitions nest.                          *)
(***************************************************************************)
C10_BuildDepth ==
    (pc = "exit" /\ stmts # None) =>
        /\ exit_code = Some(0)
        /\ Len(classes) = Len(classdefs[1])
        /\ Height(classes) = ClassDepth(stmts[1])

====
